---- MODULE Spec2Model ----
(***************************************************************************)
(* A model of src/user_management.py: class UserManager, a user-account    *)
(* store over one SQLite table                                             *)
(*   users(id INTEGER PRIMARY KEY, username TEXT UNIQUE, password TEXT,    *)
(*         email TEXT, is_admin BOOLEAN DEFAULT 0).                        *)
(*                                                                         *)
(* Python str values whose characters matter (usernames, prefixes) are     *)
(* sequences of one-character strings; str values that are only hashed or  *)
(* compared for equality (passwords, digests, emails) are atomic strings.  *)
(* A Python argument that may be None is a record [type, value].           *)
(*                                                                         *)
(* The store is a file.  A connection that __init__ replaces is not closed *)
(* by the code: it stays open, with its transaction and its file lock,     *)
(* until the garbage collector frees it (a sqlite3.Connection is in a      *)
(* reference cycle with its statement cache).  SQLite's file locks         *)
(* (rollback journal) are SHARED, RESERVED, PENDING and EXCLUSIVE.         *)
(***************************************************************************)
EXTENDS Integers, Sequences, FiniteSets

\* ------------------------------------------------------------------------
\* Bounds and input sets
\* ------------------------------------------------------------------------

\* the largest number of rows the model lets create_user insert
MaxUsers == 3
\* the largest number of replaced connections that hold a file lock at once
MaxStale == 2

admin == <<"a","d","m","i","n">>
john_doe == <<"j","o","h","n","_","d","o","e">>
jane_smith == <<"j","a","n","e","_","s","m","i","t","h">>
nonexistent_user == <<"n","o","n","e","x","i","s","t","e","n","t","_","u","s","e","r">>
\* the string  admin' OR '1'='1  of line 89
injection == <<"a","d","m","i","n","'"," ","O","R"," ","'","1","'","=","'","1">>

\* usernames given to create_user
Usernames == {admin, john_doe, jane_smith}
\* passwords given to create_user
Passwords == {"password123", "mypassword"}
\* the calls of create_user: those of lines 82 to 84 in their shape (an admin
\* and two users, one password shared by two of them), a second call for
\* admin with another password and flag, and a call for john_doe with the
\* flag set
CreateCalls ==
  {<<admin, "password123", "admin@example.com", TRUE>>,
   <<admin, "mypassword", "john@example.com", FALSE>>,
   <<john_doe, "mypassword", "john@example.com", FALSE>>,
   <<john_doe, "mypassword", "john@example.com", TRUE>>,
   <<jane_smith, "password123", "jane@example.com", FALSE>>}

PyStr(s) == [type |-> "str", value |-> s]
\* Python's None passed where a username is expected
NoneName == [type |-> "NoneType", value |-> <<>>]
\* Python's None passed where a password is expected
NonePassword == [type |-> "NoneType", value |-> ""]

\* usernames given to get_user_permissions
LookupNames == Usernames \cup {nonexistent_user}
\* username arguments of authenticate_user
AuthNames == {PyStr(u) : u \in Usernames \cup {injection}} \cup {NoneName}
\* password arguments of authenticate_user
AuthPasswords == {PyStr(p) : p \in Passwords \cup {"anything"}} \cup {NonePassword}
\* arguments of find_users_by_prefix
Prefixes == {<<>>, <<"j">>, <<"J">>, <<"j","a">>, <<"z","z">>, <<"_","o">>, <<"%","d">>}

\* ------------------------------------------------------------------------
\* Characters
\* ------------------------------------------------------------------------

\* the printable ASCII characters, code 32 to 126, in code order; the entry
\* "grave" holds the place of the grave accent (code 96), which the inputs
\* of the model do not use
Ascii ==
  <<" ","!","\"","#","$","%","&","'","(",")","*","+",",","-",".","/",
    "0","1","2","3","4","5","6","7","8","9",":",";","<","=",">","?",
    "@","A","B","C","D","E","F","G","H","I","J","K","L","M","N","O",
    "P","Q","R","S","T","U","V","W","X","Y","Z","[","\\","]","^","_",
    "grave","a","b","c","d","e","f","g","h","i","j","k","l","m","n","o",
    "p","q","r","s","t","u","v","w","x","y","z","{","|","}","~">>

\* the code of a character, which is also its one UTF-8 byte
ord(c) == 31 + (CHOOSE i \in 1..Len(Ascii) : Ascii[i] = c)

\* SQLite's LIKE folds the upper-case ASCII letters to lower case
lower(c) == LET n == ord(c) IN IF n >= 65 /\ n <= 90 THEN Ascii[n + 32 - 31] ELSE c

\* ------------------------------------------------------------------------
\* Pure functions
\* ------------------------------------------------------------------------

\* hashlib.sha256(password.encode()).hexdigest(), tabulated on the passwords
\* of the model; the digests are the real ones
hash_password(password) ==
  CASE password = "password123" ->
         "ef92b778bafe771e89245b89ecbc08a44a4e166c06659911881f383d4473e94f"
    [] password = "mypassword" ->
         "89e01536ac207279409d4de1e5253e01f4a1769e696db0d6062ca9b8f56767c8"
    [] password = "secret456" ->
         "3c2122a1d02657a5aa61ba86504a111b04c425df3471f3b8d48d76e7557f3a7e"
    [] password = "anything" ->
         "ee0874170b7f6f32b8c2ac9573c428d35b575270a66b757c2c0185d2bd09718d"
    [] password = "" ->
         "e3b0c44298fc1c149afbf4c8996fb92427ae41e4649b934ca495991b7852b855"

\* the sqlite3 module binds a Python bool as the integer 1 or 0
BindBool(b) == IF b THEN 1 ELSE 0

\* s starts with p, character for character
StartsWith(s, p) == Len(p) <= Len(s) /\ SubSeq(s, 1, Len(p)) = p

\* SQLite's  str LIKE pat  with no ESCAPE: % matches any run of characters,
\* _ matches one character, any other character matches itself up to ASCII case
RECURSIVE Like(_, _)
Like(pat, str) ==
  IF pat = <<>> THEN str = <<>>
  ELSE IF Head(pat) = "%"
    THEN Like(Tail(pat), str) \/ (str # <<>> /\ Like(pat, Tail(str)))
  ELSE IF str = <<>> THEN FALSE
  ELSE IF Head(pat) = "_" THEN Like(Tail(pat), Tail(str))
  ELSE lower(Head(pat)) = lower(Head(str)) /\ Like(Tail(pat), Tail(str))

\* a sorts strictly before b under the BINARY collation (memcmp of the bytes,
\* the shorter string first on a tie)
RECURSIVE BinaryLess(_, _)
BinaryLess(a, b) ==
  IF b = <<>> THEN FALSE
  ELSE IF a = <<>> THEN TRUE
  ELSE IF Head(a) = Head(b) THEN BinaryLess(Tail(a), Tail(b))
  ELSE ord(Head(a)) < ord(Head(b))

\* ------------------------------------------------------------------------
\* State
\* ------------------------------------------------------------------------

VARIABLES
  table,          \* the committed rows of users, in rowid order
  pending,        \* the rows the connection has inserted and not committed
  connection,     \* self.connection: "open" or "closed"
  in_transaction, \* self.connection.in_transaction
  lock,           \* the file lock of self.connection: "none", "shared", "reserved", "pending"
  stale,          \* the file locks of the replaced connections not yet freed, oldest first
  last,           \* the last call on the manager: its arguments and its outcome
  created         \* history: created[id] is the arguments of the call that inserted row id

vars == <<table, pending, connection, in_transaction, lock, stale, last, created>>

\* return values
RetNone == [type |-> "NoneType", b |-> FALSE, i |-> 0, l |-> <<>>]
RetBool(b) == [type |-> "bool", b |-> b, i |-> 0, l |-> <<>>]
RetInt(i) == [type |-> "int", b |-> FALSE, i |-> i, l |-> <<>>]
RetList(l) == [type |-> "list", b |-> FALSE, i |-> 0, l |-> l]

\* a call record with no argument and no outcome yet; after says, for a call
\* of authenticate_user, whether the call before it was a create_user with the
\* same username and password, and what that call returned
Call(op) ==
  [op |-> op, username |-> NoneName, password |-> NonePassword, email |-> "",
   is_admin |-> FALSE, prefix |-> <<>>, after |-> "", exc |-> "",
   ret |-> RetNone]

Returned(call, ret) == [call EXCEPT !.ret = ret]
Raised(call, exc) == [call EXCEPT !.exc = exc]

\* the after field of a call authenticate_user(username, password): whether
\* the call before it was create_user with the same username and password,
\* and what that call returned
After(username, password) ==
  IF /\ last.op = "create_user"
     /\ last.exc = ""
     /\ last.username = username
     /\ last.password = password
  THEN (IF last.ret.b THEN "create_user_true" ELSE "create_user_false")
  ELSE "other"

\* the rows the statements of self.connection see
View == table \o pending

\* a replaced connection is between RESERVED and EXCLUSIVE (PENDING): no other
\* connection can take SHARED, so none can read the schema or a row
ReadBlocked == \E n \in 1..Len(stale) : stale[n] = "pending"

\* a replaced connection holds RESERVED or PENDING: no other can take RESERVED
WriteBlocked == \E n \in 1..Len(stale) : stale[n] \in {"reserved", "pending"}

\* a replaced connection holds SHARED: no other can take EXCLUSIVE to commit
CommitBlocked == \E n \in 1..Len(stale) : stale[n] = "shared"

\* the lock of the connection after a SELECT: inside a transaction the SHARED
\* lock stays until the transaction ends
AfterSelect == IF in_transaction /\ lock = "none" THEN "shared" ELSE lock

\* the rows whose username column equals the bound value (BINARY collation)
RowsNamed(t, username) == {k \in 1..Len(t) : t[k].username = username}

\* INTEGER PRIMARY KEY with no value given: one more than the largest rowid
NextId(t) == IF t = <<>> THEN 1 ELSE t[Len(t)].id + 1

\* username TEXT UNIQUE: the INSERT raises sqlite3.IntegrityError
UniqueViolated(t, username) == RowsNamed(t, username) # {}

\* an INSERT of the password as given
InsertedRowPlaintext(t, username, password, email, is_admin) ==
  [id |-> NextId(t), username |-> username, password |-> password,
   email |-> email, is_admin |-> BindBool(is_admin)]

\* the row of INSERT INTO users (username, password, email, is_admin)
\* VALUES (?, ?, ?, ?) with (username, hashed_password, email, is_admin)
InsertedRow(t, username, password, email, is_admin) ==
  [id |-> NextId(t), username |-> username,
   password |-> hash_password(password), email |-> email,
   is_admin |-> BindBool(is_admin)]

\* a query comparing the password column with the password as given
SelectUserNoHash(t, username, password) ==
  {k \in 1..Len(t) :
     /\ username.type = "str"
     /\ t[k].username = username.value
     /\ t[k].password = password.value}

\* SELECT * FROM users WHERE username = ? AND password = ? with
\* (username, hashed_password); a None username is bound as NULL, and
\* username = NULL is never true
SelectUser(t, username, password) ==
  {k \in 1..Len(t) :
     /\ username.type = "str"
     /\ t[k].username = username.value
     /\ t[k].password = hash_password(password.value)}

\* the rows in the order of the unique index on username: by username under
\* BINARY, then by rowid
RECURSIVE IndexOrder(_, _)
IndexOrder(t, rows) ==
  IF rows = {} THEN <<>>
  ELSE LET first == CHOOSE k \in rows : \A j \in rows \ {k} :
                      \/ BinaryLess(t[k].username, t[j].username)
                      \/ (t[k].username = t[j].username /\ k < j)
       IN <<first>> \o IndexOrder(t, rows \ {first})

\* SELECT username FROM users WHERE username LIKE ? || '%': SQLite scans the
\* covering index sqlite_autoindex_users_1, so the rows come in index order
SelectUsernamesLike(t, prefix) ==
  LET scan == IndexOrder(t, 1..Len(t))
      names == [n \in 1..Len(scan) |-> t[scan[n]].username]
      Matches(name) == Like(prefix \o <<"%">>, name)
  IN SelectSeq(names, Matches)

Init ==
  /\ table = <<>>
  /\ pending = <<>>
  /\ connection = "open"
  /\ in_transaction = FALSE
  /\ lock = "none"
  /\ stale = <<>>
  /\ last = Returned(Call("UserManager"), RetNone)
  /\ created = <<>>

\* ------------------------------------------------------------------------
\* Operations
\* ------------------------------------------------------------------------

\* the replaced connections right after self.connection =
\* sqlite3.connect(db_path) on a manager that has a connection: the old one,
\* if open and holding a lock, is one more of them
Replaced ==
  IF connection = "open" /\ lock # "none" THEN Append(stale, lock) ELSE stale

\* the new connection takes the place of the old one, whose uncommitted rows
\* no one sees any more; kept are the replaced connections not yet freed
Replace(kept) ==
  /\ stale' = kept
  /\ Len(kept) <= MaxStale
  /\ connection' = "open"
  /\ in_transaction' = FALSE
  /\ lock' = "none"
  /\ pending' = <<>>
  /\ created' = SubSeq(created, 1, Len(table))
  /\ UNCHANGED table

\* UserManager(db_path) on the db_path of the store, bound to the name of the
\* manager (same_object = FALSE), or __init__(db_path) called on the manager
\* itself (same_object = TRUE).  CREATE TABLE IF NOT EXISTS reads the schema
\* and finds the table; it raises when a connection holds PENDING.
\* In __init__ on the manager itself line 8 makes the old connection garbage
\* before line 9 runs setup_database, and the garbage collector may run in
\* between: it frees the n youngest replaced connections, the one just
\* replaced among them.  A raising __init__ leaves the new connection in the
\* manager.  While a constructor runs the old manager still has its
\* connection, whose lock counts; a raising constructor leaves the manager as
\* it was, and a returning one replaces it
Initialize(same_object, n) ==
  LET call == Call(IF same_object THEN "__init__" ELSE "UserManager")
      kept == SubSeq(Replaced, 1, Len(Replaced) - n)
      blocked == IF same_object
                   THEN \E k \in 1..Len(kept) : kept[k] = "pending"
                   ELSE ReadBlocked \/ (connection = "open" /\ lock = "pending")
  IN /\ n <= Len(Replaced)
     /\ same_object \/ n = 0
     /\ IF blocked
        THEN /\ last' = Raised(call, "OperationalError")
             /\ IF same_object
                THEN Replace(kept)
                ELSE UNCHANGED <<table, pending, connection, in_transaction,
                                 lock, stale, created>>
        ELSE /\ last' = Returned(call, RetNone)
             /\ Replace(kept)

\* UserManager.setup_database called on the manager: the CREATE TABLE IF NOT
\* EXISTS finds the table, and commit() ends the open transaction, if any
SetupDatabase ==
  LET call == Call("setup_database")
  IN IF connection = "closed"
     THEN /\ last' = Raised(call, "ProgrammingError")
          /\ UNCHANGED <<table, pending, connection, in_transaction, lock,
                         stale, created>>
     ELSE IF ReadBlocked
     THEN /\ last' = Raised(call, "OperationalError")
          /\ UNCHANGED <<table, pending, connection, in_transaction, lock,
                         stale, created>>
     ELSE IF in_transaction /\ lock \in {"reserved", "pending"} /\ CommitBlocked
     THEN /\ last' = Raised(call, "OperationalError")
          /\ lock' = "pending"
          /\ UNCHANGED <<table, pending, connection, in_transaction, stale,
                         created>>
     ELSE /\ last' = Returned(call, RetNone)
          /\ table' = View
          /\ pending' = <<>>
          /\ in_transaction' = FALSE
          /\ lock' = "none"
          /\ UNCHANGED <<connection, stale, created>>

\* UserManager.authenticate_user
AuthenticateUser(username, password) ==
  LET call == [Call("authenticate_user") EXCEPT !.username = username,
                 !.password = password,
                 !.after = After(username, password)]
      result == SelectUser(View, username, password)
      outcome == IF connection = "closed"
                   THEN Raised(call, "ProgrammingError")
                 ELSE IF password.type # "str"
                   THEN Raised(call, "AttributeError")
                 ELSE IF ReadBlocked
                   THEN Raised(call, "OperationalError")
                 ELSE Returned(call, RetBool(result # {}))
  IN /\ last' = outcome
     /\ lock' = IF outcome.exc = "" THEN AfterSelect ELSE lock
     /\ UNCHANGED <<table, pending, connection, in_transaction, stale, created>>

\* get_user_permissions clearing the flag of the row it has read
GetUserPermissionsReset(username) ==
  LET call == [Call("get_user_permissions") EXCEPT !.username = PyStr(username)]
      result == RowsNamed(View, username)
      first == CHOOSE k \in result : \A j \in result : k <= j
      outcome == IF connection = "closed"
                   THEN Raised(call, "ProgrammingError")
                 ELSE IF ReadBlocked
                   THEN Raised(call, "OperationalError")
                 ELSE IF result = {}
                   THEN Raised(call, "ValueError")
                 ELSE Returned(call, RetInt(View[first].is_admin))
  IN /\ last' = outcome
     /\ lock' = IF outcome.exc \in {"", "ValueError"} THEN AfterSelect ELSE lock
     /\ table' = IF outcome.exc = "" /\ first <= Len(table)
                   THEN [table EXCEPT ![first].is_admin = 0] ELSE table
     /\ UNCHANGED <<pending, connection, in_transaction, stale, created>>

\* UserManager.get_user_permissions
GetUserPermissions(username) ==
  LET call == [Call("get_user_permissions") EXCEPT !.username = PyStr(username)]
      result == RowsNamed(View, username)
      row == View[CHOOSE k \in result : \A j \in result : k <= j]
      outcome == IF connection = "closed"
                   THEN Raised(call, "ProgrammingError")
                 ELSE IF ReadBlocked
                   THEN Raised(call, "OperationalError")
                 ELSE IF result = {}
                   THEN Raised(call, "ValueError")
                 ELSE Returned(call, RetInt(row.is_admin))
  IN /\ last' = outcome
     /\ lock' = IF outcome.exc \in {"", "ValueError"} THEN AfterSelect ELSE lock
     /\ UNCHANGED <<table, pending, connection, in_transaction, stale, created>>

\* UserManager.find_users_by_prefix
FindUsersByPrefix(prefix) ==
  LET call == [Call("find_users_by_prefix") EXCEPT !.prefix = prefix]
      outcome == IF connection = "closed"
                   THEN Raised(call, "ProgrammingError")
                 ELSE IF ReadBlocked
                   THEN Raised(call, "OperationalError")
                 ELSE Returned(call, RetList(SelectUsernamesLike(View, prefix)))
  IN /\ last' = outcome
     /\ lock' = IF outcome.exc = "" THEN AfterSelect ELSE lock
     /\ UNCHANGED <<table, pending, connection, in_transaction, stale, created>>

\* UserManager.create_user.  The sqlite3 module prepares the INSERT (which
\* reads the schema on a new connection), opens a transaction (BEGIN) and runs
\* the INSERT, which takes RESERVED; commit() takes EXCLUSIVE.  Only
\* sqlite3.IntegrityError is caught: sqlite3.OperationalError (database is
\* locked) goes to the caller, from the INSERT or from commit(), and after a
\* failed commit() the row stays in the open transaction
CreateUser(username, password, email, is_admin) ==
  LET call == [Call("create_user") EXCEPT !.username = PyStr(username),
                 !.password = PyStr(password), !.email = email,
                 !.is_admin = is_admin]
      row == InsertedRow(View, username, password, email, is_admin)
  IN IF connection = "closed"
     THEN /\ last' = Raised(call, "ProgrammingError")
          /\ UNCHANGED <<table, pending, connection, in_transaction, lock,
                         stale, created>>
     ELSE IF ReadBlocked
     THEN /\ last' = Raised(call, "OperationalError")
          /\ UNCHANGED <<table, pending, connection, in_transaction, lock,
                         stale, created>>
     ELSE IF lock \notin {"reserved", "pending"} /\ WriteBlocked
     THEN /\ last' = Raised(call, "OperationalError")
          /\ in_transaction' = TRUE
          /\ UNCHANGED <<table, pending, connection, lock, stale, created>>
     ELSE IF UniqueViolated(View, username)
     THEN \* nothing is inserted and the transaction stays open
          /\ last' = Returned(call, RetBool(FALSE))
          /\ in_transaction' = TRUE
          /\ lock' = IF lock = "pending" THEN "pending" ELSE "reserved"
          /\ UNCHANGED <<table, pending, connection, stale, created>>
     ELSE /\ Len(View) < MaxUsers
          /\ created' = Append(created,
               [username |-> username, password |-> password,
                email |-> email, is_admin |-> is_admin])
          /\ IF CommitBlocked
             THEN /\ last' = Raised(call, "OperationalError")
                  /\ pending' = Append(pending, row)
                  /\ in_transaction' = TRUE
                  /\ lock' = "pending"
                  /\ UNCHANGED table
             ELSE /\ last' = Returned(call, RetBool(TRUE))
                  /\ table' = Append(View, row)
                  /\ pending' = <<>>
                  /\ in_transaction' = FALSE
                  /\ lock' = "none"
          /\ UNCHANGED <<connection, stale>>

\* UserManager.close: the open transaction is rolled back
Close ==
  /\ connection' = "closed"
  /\ in_transaction' = FALSE
  /\ lock' = "none"
  /\ pending' = <<>>
  /\ created' = SubSeq(created, 1, Len(table))
  /\ last' = Returned(Call("close"), RetNone)
  /\ UNCHANGED <<table, stale>>

\* the garbage collector frees the n youngest replaced connections (a young
\* generation, or all of them): each is closed and gives up its lock
Collect(n) ==
  /\ stale' = SubSeq(stale, 1, Len(stale) - n)
  /\ UNCHANGED <<table, pending, connection, in_transaction, lock, last,
                 created>>

Next ==
  \/ \E same_object \in BOOLEAN, n \in 0..(Len(stale) + 1) :
       Initialize(same_object, n)
  \/ SetupDatabase
  \/ \E u \in AuthNames, p \in AuthPasswords : AuthenticateUser(u, p)
  \/ \E u \in LookupNames : GetUserPermissions(u)
  \/ \E x \in Prefixes : FindUsersByPrefix(x)
  \/ \E c \in CreateCalls : CreateUser(c[1], c[2], c[3], c[4])
  \/ Close
  \/ \E n \in 1..Len(stale) : Collect(n)

Spec == Init /\ [][Next]_vars

\* ------------------------------------------------------------------------
\* Properties
\* ------------------------------------------------------------------------

\* the last call ran on a connection that was not closed
Live == last.exc # "ProgrammingError"

\* the usernames of the rows the connection sees
StoredNames == {View[k].username : k \in 1..Len(View)}

\* the step is a call of op on the manager, not a run of the garbage collector
IsCall(op) == last'.op = op /\ stale' = stale

\* C1, as stated: an authenticate_user that directly follows a create_user
\* with the same username and password returns True, whatever the store held
\* before and whatever create_user returned
C1_Original ==
  (last.op = "authenticate_user" /\ last.after # "other")
    => (last.exc = "" /\ last.ret = RetBool(TRUE))

\* C1, amended: an authenticate_user that directly follows a create_user with
\* the same username and password which returned True returns True
C1_CreateThenAuthenticate ==
  (last.op = "authenticate_user" /\ last.after = "create_user_true")
    => (last.exc = "" /\ last.ret = RetBool(TRUE))

C1_Witness ==
  /\ last.op = "authenticate_user"
  /\ last.after = "create_user_true"
  /\ last.ret = RetBool(TRUE)
  /\ Len(table) >= 2

\* C2, as stated: with a str password on a connection that is not closed,
\* authenticate_user returns True exactly when some row has the given
\* username, compared as a value, and the SHA-256 digest of the given
\* password, and False otherwise: for a username no row has, for None, and for
\* the query-syntax username of line 89
C2_AuthenticateIffRecord ==
  (last.op = "authenticate_user" /\ Live /\ last.password.type = "str")
    => /\ last.exc = ""
       /\ last.ret.type = "bool"
       /\ last.ret.b <=>
            \E k \in 1..Len(View) :
               /\ PyStr(View[k].username) = last.username
               /\ View[k].password = hash_password(last.password.value)
       /\ (last.username.value \notin StoredNames => last.ret.b = FALSE)

\* C3, as stated: no two rows share a username; on a connection that is not
\* closed create_user returns True and appends exactly one row, with the given
\* username, when no row has that username, and returns False, raising nothing
\* and leaving the rows as they were, when a row has it
C3_UniqueUsername ==
  [][/\ \A j, k \in 1..Len(table' \o pending') :
          (table' \o pending')[j].username = (table' \o pending')[k].username
            => j = k
     /\ (IsCall("create_user") /\ connection = "open")
          => IF last'.username.value \notin StoredNames
             THEN /\ last'.exc = ""
                  /\ last'.ret = RetBool(TRUE)
                  /\ Len(table') = Len(View) + 1
                  /\ SubSeq(table', 1, Len(View)) = View
                  /\ table'[Len(table')].username = last'.username.value
             ELSE /\ last'.exc = ""
                  /\ last'.ret = RetBool(FALSE)
                  /\ table' \o pending' = View]_vars

\* C4, as stated: on a connection that is not closed get_user_permissions
\* raises ValueError when no row has the username, and otherwise returns the
\* is_admin argument of the create_user call that inserted the row, as the
\* integer SQLite stored for it (1 for True, 0 for False); the rows are the
\* same after the call
C4_GetPermissions ==
  [][(IsCall("get_user_permissions") /\ connection = "open")
       => /\ table' = table
          /\ pending' = pending
          /\ LET rows == RowsNamed(View, last'.username.value)
             IN IF rows = {}
                THEN last'.exc = "ValueError"
                ELSE /\ last'.exc = ""
                     /\ \A k \in rows :
                          last'.ret =
                            RetInt(BindBool(created[View[k].id].is_admin))]_vars

\* C5, as stated: the list find_users_by_prefix returns holds each username
\* that starts with the prefix once, and no other username
C5_ExactlyThePrefixed ==
  (last.op = "find_users_by_prefix" /\ last.exc = "")
    => /\ {last.ret.l[n] : n \in 1..Len(last.ret.l)}
            = {u \in StoredNames : StartsWith(u, last.prefix)}
       /\ \A m, n \in 1..Len(last.ret.l) :
            last.ret.l[m] = last.ret.l[n] => m = n

\* C6, as stated: the usernames find_users_by_prefix returns are in the order
\* in which their rows were created
C6_StorageOrder ==
  (last.op = "find_users_by_prefix" /\ last.exc = "")
    => \A m, n \in 1..Len(last.ret.l) :
         m < n =>
           \E j, k \in 1..Len(View) :
              /\ View[j].username = last.ret.l[m]
              /\ View[k].username = last.ret.l[n]
              /\ View[j].id < View[k].id

\* C7: authenticate_user, get_user_permissions and find_users_by_prefix leave
\* the rows as they were, the committed ones and the uncommitted ones, whether
\* they return or raise
C7_ReadOnly ==
  [][(\/ IsCall("authenticate_user")
      \/ IsCall("get_user_permissions")
      \/ IsCall("find_users_by_prefix"))
       => (table' = table /\ pending' = pending)]_vars

\* a read operation has raised on a store that holds rows
C7_Witness ==
  /\ last.op = "authenticate_user"
  /\ last.exc = "AttributeError"
  /\ Len(table) >= 2

\* C8, as stated: a row the manager has, it has with the same id, username,
\* password, email and is_admin after every step: create_user, the three read
\* operations, close, setup_database and a repeated initialization; and a
\* repeated initialization raises nothing
C8_RecordsPersist ==
  [][/\ Len(table' \o pending') >= Len(View)
     /\ \A k \in 1..Len(View) : (table' \o pending')[k] = View[k]
     /\ (last'.op \in {"__init__", "UserManager"} => last'.exc = "")]_vars

\* C9, as stated: on a connection that is not closed every authenticate_user
\* that does not succeed returns False and raises nothing, for a wrong
\* password, an unknown username and an argument that is not a str alike
C9_FailuresReturnFalse ==
  (last.op = "authenticate_user" /\ Live)
    => /\ last.exc = ""
       /\ last.ret.type = "bool"

\* C10: the password column of every row, committed or not, is the SHA-256
\* hex digest of the password argument of the create_user call that inserted
\* the row, and is never that argument itself
C10_PasswordIsDigest ==
  /\ Len(created) = Len(View)
  /\ \A k \in 1..Len(View) :
       /\ View[k].id \in 1..Len(created)
       /\ View[k].password = hash_password(created[View[k].id].password)
       /\ View[k].password # created[View[k].id].password

C10_Witness ==
  \E k \in 1..Len(table) :
     /\ created[table[k].id].password = "password123"
     /\ table[k].password =
          "ef92b778bafe771e89245b89ecbc08a44a4e166c06659911881f383d4473e94f"
====
